---- MODULE Spec2Model ----
(***************************************************************************)
(* The AI SQL agent: AIAgent.processQuery and the four step components it  *)
(* sequences (InputRefinement, QuerySelector, TableSelector,               *)
(* QueryGenerator) over the model client callOllama.                       *)
(*                                                                         *)
(* A text is a sequence of tokens.  JavaScript values are tagged records,  *)
(* so that undefined, null, strings, arrays and objects stay distinct.     *)
(***************************************************************************)
EXTENDS Integers, Sequences, FiniteSets, TLC

\* ------------------------------------------------------------------ bounds
MaxExamples == 1    \* longest example-query catalog explored
MaxClock    == 1    \* latest reading of Date.now() explored

\* ------------------------------------------------------- JavaScript values
Undefined == [t |-> "undefined"]
Null      == [t |-> "null"]
Str(s)    == [t |-> "string", s |-> s]
Num(n)    == [t |-> "number", n |-> n]
Arr(a)    == [t |-> "array", a |-> a]
Obj(o)    == [t |-> "object", o |-> o]

\* An empty object {}: a function with no fields.
NoFields == [f \in {} |-> Undefined]

\* obj.field for a parsed value that is not null or undefined.
\* A missing property, or a property of a primitive, reads as undefined.
Get(v, field) ==
  IF v.t = "object" /\ field \in DOMAIN v.o THEN v.o[field] ELSE Undefined

\* JavaScript truthiness, as used by `a || b`.
Truthy(v) ==
  CASE v.t = "undefined" -> FALSE
    [] v.t = "null"      -> FALSE
    [] v.t = "string"    -> Len(v.s) > 0
    [] v.t = "number"    -> v.n # 0
    [] OTHER             -> TRUE

\* Thrown values: Error objects, of which the code reads only .message.
Exception(name, message) == [name |-> name, message |-> message]
NoError == [name |-> "none", message |-> <<>>]

\* ---------------------------------------------------------------- texts
Space == " "

RECURSIVE TrimStart(_)
TrimStart(s) ==
  IF s # <<>> /\ Head(s) = Space THEN TrimStart(Tail(s)) ELSE s

RECURSIVE TrimEnd(_)
TrimEnd(s) ==
  IF s # <<>> /\ s[Len(s)] = Space THEN TrimEnd(SubSeq(s, 1, Len(s) - 1)) ELSE s

\* String.prototype.trim
Trim(s) == TrimEnd(TrimStart(s))

\* `${v}` in a template literal
ToText(v) ==
  CASE v.t = "undefined" -> <<"undefined">>
    [] v.t = "null"      -> <<"null">>
    [] v.t = "string"    -> v.s
    [] OTHER             -> <<"[value]">>

\* The JSON documents the model may answer with: the token is the document's
\* text, the value is what JSON.parse makes of it.
PatternDoc        == "{selectedQueryIndex,selectedQuery,confidence,reasoning}"
TablesDoc         == "{selectedTables:[orders],selectedColumns:{orders:[id]},reasoning,confidence}"
TablesNoColumnsDoc == "{selectedTables:[orders]}"
TablesNotArrayDoc == "{selectedTables:orders,selectedColumns:{orders:id}}"
ColumnsNotArrayDoc == "{selectedTables:[orders],selectedColumns:{orders:id}}"

JSONDocs == {"null", "{}", PatternDoc, TablesDoc, TablesNoColumnsDoc,
             TablesNotArrayDoc, ColumnsNotArrayDoc}

SelectSql == <<"SELECT", "x", "FROM", "x", ";">>

JSONValue(doc) ==
  CASE doc = "null" -> Null
    [] doc = "{}"   -> Obj(NoFields)
    [] doc = PatternDoc ->
         Obj([selectedQueryIndex |-> Num(1), selectedQuery |-> Str(SelectSql),
              confidence |-> Num(90), reasoning |-> Str(<<"x">>)])
    [] doc = TablesDoc ->
         Obj([selectedTables |-> Arr(<<Str(<<"orders">>)>>),
              selectedColumns |-> Obj([orders |-> Arr(<<Str(<<"id">>)>>)]),
              reasoning |-> Str(<<"x">>), confidence |-> Num(80)])
    [] doc = TablesNoColumnsDoc ->
         Obj([selectedTables |-> Arr(<<Str(<<"orders">>)>>)])
    [] doc = TablesNotArrayDoc ->
         Obj([selectedTables |-> Str(<<"orders">>),
              selectedColumns |-> Obj([orders |-> Str(<<"id">>)])])
    [] doc = ColumnsNotArrayDoc ->
         Obj([selectedTables |-> Arr(<<Str(<<"orders">>)>>),
              selectedColumns |-> Obj([orders |-> Str(<<"id">>)])])

SyntaxError == Exception("SyntaxError", <<"Unexpected token in JSON">>)

\* JSON.parse(v): v is first converted to a string; surrounding white space is
\* allowed; anything but one JSON document is a SyntaxError.
JSONParse(v) ==
  LET text == Trim(ToText(v)) IN
  IF v.t = "string" /\ Len(text) = 1 /\ text[1] \in JSONDocs
  THEN [ok |-> TRUE, value |-> JSONValue(text[1])]
  ELSE [ok |-> FALSE, error |-> SyntaxError]

\* ------------------------------------------------------------ model client
TransportMessage == <<"connect ECONNREFUSED">>

\* What the model may answer: plain texts and JSON documents.
Contents ==
  {Str(<<>>), Str(<<Space>> \o SelectSql \o <<Space>>)}
  \cup {Str(<<d>>) : d \in JSONDocs}

\* How ollama.chat settles: it resolves with a response carrying
\* message.content, or it rejects with a transport error.
ChatOutcomes ==
  {[kind |-> "resolved", content |-> c] : c \in Contents}
  \cup {[kind |-> "rejected", message |-> TransportMessage]}

\* callOllama: the content on success; any failure is rethrown as a new Error
\* whose message is prefixed.
callOllama(chat) ==
  IF chat.kind = "resolved"
  THEN [ok |-> TRUE, value |-> chat.content]
  ELSE [ok |-> FALSE,
        error |-> Exception("Error", <<"Ollama API call failed: ">> \o chat.message)]

\* ----------------------------------------------------------- Input Refiner
refineUserInput(userInput, chat) ==
  LET response == callOllama(chat) IN
  IF response.ok
  THEN [original |-> userInput, refined |-> response.value, success |-> TRUE]
  ELSE [original |-> userInput, refined |-> userInput, success |-> FALSE,
        error |-> response.error.message]

\* ---------------------------------------------------- Query Pattern Selector
\* this.exampleQueries.push({ query, description })
addExampleQueryPush(exampleQueries, query, description) ==
  Append(exampleQueries, [query |-> query, description |-> description])

\* The guard of the short circuit: this.exampleQueries.length === 0
NoExampleQueries(exampleQueries) == Len(exampleQueries) = 0

selectBestQueryEmpty ==
  [selectedQuery |-> Null, confidence |-> Num(0),
   reasoning |-> Str(<<"No example queries available">>)]

selectBestQueryCatch(error) ==
  [selectedQuery |-> Null, confidence |-> Num(0),
   reasoning |-> Str(<<"Error selecting query: ">> \o error.message),
   success |-> FALSE, error |-> error.message]

\* The try block of selectBestQuery once the model call has settled.
selectBestQueryTry(chat) ==
  LET response == callOllama(chat) IN
  IF ~response.ok THEN selectBestQueryCatch(response.error)
  ELSE LET parsed == JSONParse(response.value) IN
       IF ~parsed.ok THEN selectBestQueryCatch(parsed.error)
       ELSE IF parsed.value.t \in {"null", "undefined"}
       THEN selectBestQueryCatch(Exception("TypeError",
              <<"Cannot read properties of null (reading 'selectedQuery')">>))
       ELSE [selectedQuery |-> Get(parsed.value, "selectedQuery"),
             selectedQueryIndex |-> Get(parsed.value, "selectedQueryIndex"),
             confidence |-> Get(parsed.value, "confidence"),
             reasoning |-> Get(parsed.value, "reasoning"),
             success |-> TRUE]

\* ----------------------------------------------------- Table/Column Selector
\* The catalogs explored have the documented shape: every metadata entry
\* carries its columns, so building metadataText raises nothing.
TableNames == {"orders", "customers"}

Columns == <<[name |-> "id", type |-> "INTEGER", description |-> <<"x">>]>>
Metadatas == {[description |-> <<"x">>, columns |-> Columns]}

\* this.tableMetadata[tableName] = metadata
addTableMetadataSet_Clear(tableMetadata, tableName, metadata) ==
  (tableName :> metadata)

addTableMetadataSet(tableMetadata, tableName, metadata) ==
  (tableName :> metadata) @@ tableMetadata

\* The guard of the short circuit: Object.keys(this.tableMetadata).length === 0
NoTableMetadata(tableMetadata) == DOMAIN tableMetadata = {}

selectTablesAndColumnsEmpty_Flagged ==
  [selectedTables |-> Arr(<<>>), selectedColumns |-> Obj(NoFields),
   reasoning |-> Str(<<"No table metadata available">>), success |-> TRUE]

selectTablesAndColumnsEmpty ==
  [selectedTables |-> Arr(<<>>), selectedColumns |-> Obj(NoFields),
   reasoning |-> Str(<<"No table metadata available">>)]

selectTablesAndColumnsCatch_Succeeds(error) ==
  [selectedTables |-> Arr(<<>>), selectedColumns |-> Obj(NoFields),
   reasoning |-> Str(<<"Error selecting tables and columns: ">> \o error.message),
   confidence |-> Num(0), success |-> TRUE, error |-> error.message]

selectTablesAndColumnsCatch(error) ==
  [selectedTables |-> Arr(<<>>), selectedColumns |-> Obj(NoFields),
   reasoning |-> Str(<<"Error selecting tables and columns: ">> \o error.message),
   confidence |-> Num(0), success |-> FALSE, error |-> error.message]

\* The try block of selectTablesAndColumns once the model call has settled.
selectTablesAndColumnsTry(chat) ==
  LET response == callOllama(chat) IN
  IF ~response.ok THEN selectTablesAndColumnsCatch(response.error)
  ELSE LET parsed == JSONParse(response.value) IN
       IF ~parsed.ok THEN selectTablesAndColumnsCatch(parsed.error)
       ELSE IF parsed.value.t \in {"null", "undefined"}
       THEN selectTablesAndColumnsCatch(Exception("TypeError",
              <<"Cannot read properties of null (reading 'selectedTables')">>))
       ELSE [selectedTables |-> Get(parsed.value, "selectedTables"),
             selectedColumns |-> Get(parsed.value, "selectedColumns"),
             reasoning |-> Get(parsed.value, "reasoning"),
             confidence |-> Get(parsed.value, "confidence"),
             success |-> TRUE]

\* ---------------------------------------------------------- Query Generator
\* selectedColumns[table]: the property named by the table, when it has one.
PropertyKey(table) ==
  IF table.t = "string" /\ Len(table.s) = 1 THEN table.s[1] ELSE "[key]"

\* The callback of selectedTables.map for one table: selectedColumns[table]
\* throws on undefined or null; (selectedColumns[table] || []).join throws on
\* a truthy value that is no array.
TableInfoError(table, selectedColumns) ==
  IF selectedColumns.t \in {"undefined", "null"}
  THEN Exception("TypeError", <<"Cannot read properties of undefined (reading 'table')">>)
  ELSE LET columns == Get(selectedColumns, PropertyKey(table)) IN
       IF Truthy(columns) /\ columns.t # "array"
       THEN Exception("TypeError", <<"columns.join is not a function">>)
       ELSE NoError

\* Building tablesInfo, before the try block of generateRedshiftQuery: the
\* first exception selectedTables.map(...).join raises, or NoError.
tablesInfoError(selectedTables, selectedColumns) ==
  IF selectedTables.t \in {"undefined", "null"}
  THEN Exception("TypeError", <<"Cannot read properties of undefined (reading 'map')">>)
  ELSE IF selectedTables.t # "array"
  THEN Exception("TypeError", <<"selectedTables.map is not a function">>)
  ELSE LET bad == {i \in 1..Len(selectedTables.a) :
                     TableInfoError(selectedTables.a[i], selectedColumns) # NoError} IN
       IF bad = {} THEN NoError
       ELSE TableInfoError(selectedTables.a[CHOOSE i \in bad : \A j \in bad : i <= j],
                           selectedColumns)

\* The try block of generateRedshiftQuery once the model call has settled.
generateRedshiftQueryTry(userPrompt, selectedQuery, selectedTables, selectedColumns, chat) ==
  LET response == callOllama(chat)
      metadata == [userPrompt |-> userPrompt, selectedQuery |-> selectedQuery,
                   selectedTables |-> selectedTables,
                   selectedColumns |-> selectedColumns]
      failed(error) == [query |-> Null, success |-> FALSE,
                        error |-> error.message, metadata |-> metadata]
  IN
  IF ~response.ok THEN failed(response.error)
  ELSE [query |-> Str(Trim(response.value.s)), success |-> TRUE,
        metadata |-> metadata]

\* /SELECT/i, /FROM/i and ';' look inside the text of a token, so a JSON
\* document counts by the characters it is written with.
ContainsSelect(token) ==
  token \in {"SELECT", PatternDoc, TablesDoc, TablesNoColumnsDoc,
             TablesNotArrayDoc, ColumnsNotArrayDoc}
ContainsFrom(token) == token \in {"FROM", PatternDoc}
ContainsSemicolon(token) == token \in {";", PatternDoc}

generateSuggestions(checks) ==
  (IF ~checks.hasSelect THEN <<"Query should include a SELECT statement">> ELSE <<>>)
  \o (IF ~checks.hasFrom THEN <<"Query should include a FROM clause">> ELSE <<>>)
  \o (IF ~checks.notEmpty THEN <<"Query cannot be empty">> ELSE <<>>)

\* validateQuery on the text of a query.
validateQuery(query) ==
  LET trimmed == Trim(query)
      basicChecks ==
        [hasSelect |-> \E i \in 1..Len(query) : ContainsSelect(query[i]),
         hasFrom |-> \E i \in 1..Len(query) : ContainsFrom(query[i]),
         properSyntax |->
           \/ (trimmed # <<>> /\ trimmed[Len(trimmed)] = ";")
           \/ ~(\E i \in 1..Len(query) : ContainsSemicolon(query[i])),
         notEmpty |-> Len(trimmed) > 0]
  IN [isValid |-> /\ basicChecks.hasSelect /\ basicChecks.hasFrom
                  /\ basicChecks.properSyntax /\ basicChecks.notEmpty,
      checks |-> basicChecks,
      suggestions |-> generateSuggestions(basicChecks)]

\* --------------------------------------------------------------- the agent
VARIABLES
  exampleQueries,   \* QuerySelector.exampleQueries: a sequence of {query, description}
  tableMetadata,    \* TableSelector.tableMetadata: table name -> metadata
  pc,               \* where processQuery stands: the await it is suspended at
  result,           \* the PipelineResult processQuery builds and returns
  startTime,        \* const startTime of the run
  now,              \* Date.now()
  pending,          \* the steps whose model call is in flight
  calls,            \* the steps whose model call this run has issued, in order
  invoked,          \* the step operations this run has started, in order
  settled,          \* how the model calls of this run have settled, in order
  summary           \* what getProcessingSummary last returned

vars == <<exampleQueries, tableMetadata, pc, result, startTime, now, pending,
          calls, invoked, settled, summary>>

UserInputs == {Str(<<"top", "customers">>)}
ExampleQuery == [query |-> SelectSql, description |-> <<"x">>]

NoSteps == [s \in {} |-> Undefined]
NoTables == [n \in {} |-> Undefined]
NoResult == [userInput |-> Undefined, steps |-> NoSteps, finalQuery |-> Null,
             success |-> FALSE, processingTime |-> 0]
NoSummary == [called |-> FALSE]

\* `!step.success`: a result without the flag counts as failed.
NotSuccess(step) == ~("success" \in DOMAIN step /\ step.success)

\* `${step.error}`: a result without an error reads as "undefined".
ErrorText(step) ==
  IF "error" \in DOMAIN step THEN step.error ELSE <<"undefined">>

\* The three gates of processQuery.
refinementFailed_Ungated(step) == FALSE

refinementFailed(step) == NotSuccess(step)

tableSelectionFailed_Ungated(step) == FALSE

tableSelectionFailed(step) == NotSuccess(step)

queryGenerationFailed(step) == NotSuccess(step)

RefinementPrefix == "Input refinement failed: "
TableSelectionPrefix == "Table selection failed: "
QueryGenerationPrefix == "Query generation failed: "

\* new Error(`<step> failed: ${step.error}`)
PipelineAbort(prefix, step) == Exception("Error", <<prefix>> \o ErrorText(step))

\* catch (error) of processQuery has no condition: it takes every thrown value.
processQueryCaught_OnlyAborts(error) == error.name = "Error"

processQueryCaught(error) == TRUE

\* The catch block of processQuery.
processQueryCatch(res, error, elapsed) ==
  [error |-> error.message]
    @@ [res EXCEPT !.success = FALSE, !.processingTime = elapsed]

\* Steps 5 and 6: validate, then set finalQuery, success and the elapsed time.
processQueryFinish_FailsInvalid(res, elapsed) ==
  LET generated == res.steps["queryGeneration"].query
      validation == validateQuery(generated.s)
      validated == ("validation" :> validation) @@ res.steps
  IN [res EXCEPT !.steps = validated,
                 !.finalQuery = IF validation.isValid THEN generated ELSE Null,
                 !.success = validation.isValid, !.processingTime = elapsed]

processQueryFinish(res, elapsed) ==
  LET generated == res.steps["queryGeneration"].query
      validated == ("validation" :> validateQuery(generated.s)) @@ res.steps
  IN [res EXCEPT !.steps = validated, !.finalQuery = generated,
                 !.success = TRUE, !.processingTime = elapsed]

getProcessingSummary(res) ==
  LET has(step) == step \in DOMAIN res.steps
      refinement ==
        IF has("refinement")
        THEN "refinement" :> [original |-> res.steps["refinement"].original,
                              refined |-> res.steps["refinement"].refined]
        ELSE NoSteps
      querySelection ==
        IF has("querySelection")
        THEN "querySelection" :>
               [confidence |-> res.steps["querySelection"].confidence,
                reasoning |-> res.steps["querySelection"].reasoning]
        ELSE NoSteps
      tableSelection ==
        IF has("tableSelection")
        THEN "tableSelection" :>
               [selectedTables |-> res.steps["tableSelection"].selectedTables,
                confidence |->
                  IF "confidence" \in DOMAIN res.steps["tableSelection"]
                  THEN res.steps["tableSelection"].confidence ELSE Undefined]
        ELSE NoSteps
      validation ==
        IF has("validation")
        THEN "validation" :> [isValid |-> res.steps["validation"].isValid,
                              suggestions |-> res.steps["validation"].suggestions]
        ELSE NoSteps
  IN [success |-> res.success, processingTime |-> res.processingTime,
      steps |-> refinement @@ querySelection @@ tableSelection @@ validation]

\* ------------------------------------------------- processQuery, step by step
\* The part of the state a run owns, as one record.
Run == [pc |-> pc, result |-> result, pending |-> pending, calls |-> calls,
        invoked |-> invoked]

SetStep(R, name, step) == [R EXCEPT !.result.steps = (name :> step) @@ @]

Invoke(R, name) ==
  [R EXCEPT !.invoked =
     Append(@, [step |-> name,
                userPrompt |-> R.result.steps["refinement"].refined])]

\* A step reaches its `await callOllama(prompt)`: the call goes out and the
\* run is suspended there.
Issue(R, name, at) ==
  [R EXCEPT !.pc = at, !.pending = @ \cup {name}, !.calls = Append(@, name)]

\* A thrown value inside the try block of processQuery.
Throw(R, error, elapsed) ==
  IF processQueryCaught(error)
  THEN [R EXCEPT !.pc = "returned",
                 !.result = processQueryCatch(R.result, error, elapsed)]
  ELSE [R EXCEPT !.pc = "rejected"]

\* Step 4 up to its model call.
Step4(R, elapsed) ==
  LET I == Invoke(R, "queryGeneration")
      error == tablesInfoError(R.result.steps["tableSelection"].selectedTables,
                               R.result.steps["tableSelection"].selectedColumns)
  IN IF error # NoError THEN Throw(I, error, elapsed)
     ELSE Issue(I, "queryGeneration", "generating")

\* The gate after step 3.
AfterTableSelection_Retry(R, step, elapsed) ==
  LET S == SetStep(R, "tableSelection", step) IN
  IF tableSelectionFailed(step)
  THEN IF Len(SelectSeq(R.calls, LAMBDA c : c = "tableSelection")) = 1
       THEN Issue(R, "tableSelection", "selectingTables")
       ELSE Throw(S, PipelineAbort(TableSelectionPrefix, step), elapsed)
  ELSE Step4(S, elapsed)

AfterTableSelection(R, step, elapsed) ==
  LET S == SetStep(R, "tableSelection", step) IN
  IF tableSelectionFailed(step)
  THEN Throw(S, PipelineAbort(TableSelectionPrefix, step), elapsed)
  ELSE Step4(S, elapsed)

\* Step 3 up to its model call, or through its short circuit.
Step3(R, metadata, elapsed) ==
  LET I == Invoke(R, "tableSelection") IN
  IF NoTableMetadata(metadata)
  THEN AfterTableSelection(I, selectTablesAndColumnsEmpty, elapsed)
  ELSE Issue(I, "tableSelection", "selectingTables")

\* Step 2 is not gated: whatever selectBestQuery returned, step 3 is next.
AfterQuerySelection_Gated(R, step, metadata, elapsed) ==
  LET S == SetStep(R, "querySelection", step) IN
  IF NotSuccess(step)
  THEN Throw(S, PipelineAbort("Query selection failed: ", step), elapsed)
  ELSE Step3(S, metadata, elapsed)

AfterQuerySelection(R, step, metadata, elapsed) ==
  Step3(SetStep(R, "querySelection", step), metadata, elapsed)

\* Step 2 up to its model call, or through its short circuit.
Step2(R, examples, metadata, elapsed) ==
  LET I == Invoke(R, "querySelection") IN
  IF NoExampleQueries(examples)
  THEN AfterQuerySelection(I, selectBestQueryEmpty, metadata, elapsed)
  ELSE Issue(I, "querySelection", "selectingPattern")

AfterRefinement(R, step, examples, metadata, elapsed) ==
  LET S == SetStep(R, "refinement", step) IN
  IF refinementFailed(step)
  THEN Throw(S, PipelineAbort(RefinementPrefix, step), elapsed)
  ELSE Step2(S, examples, metadata, elapsed)

AfterGeneration(R, step, elapsed) ==
  LET S == SetStep(R, "queryGeneration", step) IN
  IF queryGenerationFailed(step)
  THEN Throw(S, PipelineAbort(QueryGenerationPrefix, step), elapsed)
  ELSE [S EXCEPT !.pc = "returned", !.result = processQueryFinish(S.result, elapsed)]

Commit(R) ==
  /\ pc' = R.pc
  /\ result' = R.result
  /\ pending' = R.pending
  /\ calls' = R.calls
  /\ invoked' = R.invoked

\* The model call of `name` settles after some time; the run resumes.
Settle(name) == [Run EXCEPT !.pending = @ \ {name}]
Elapse == now' \in {t \in {now, now + 1} : t <= MaxClock}
Delivered(name, chat) == settled' = Append(settled, [step |-> name, chat |-> chat])

Init ==
  /\ exampleQueries \in {<<>>, <<ExampleQuery>>}
  /\ tableMetadata \in {NoTables} \cup {(n :> m) : n \in TableNames, m \in Metadatas}
  /\ pc = "idle"
  /\ result = NoResult
  /\ startTime = 0
  /\ now = 0
  /\ pending = {}
  /\ calls = <<>>
  /\ invoked = <<>>
  /\ settled = <<>>
  /\ summary = NoSummary

\* processQuery(userInput) up to the model call of step 1.
ProcessQuery(userInput) ==
  /\ pc \in {"idle", "returned", "rejected"}
  /\ startTime' = now
  /\ Commit([pc |-> "refining",
             result |-> [NoResult EXCEPT !.userInput = userInput],
             pending |-> {"refinement"},
             calls |-> <<"refinement">>,
             invoked |-> <<[step |-> "refinement", userPrompt |-> userInput]>>])
  /\ settled' = <<>>
  /\ summary' = NoSummary
  /\ UNCHANGED <<exampleQueries, tableMetadata, now>>

ResolveRefinement(chat) ==
  /\ pc = "refining"
  /\ Elapse
  /\ Delivered("refinement", chat)
  /\ Commit(AfterRefinement(Settle("refinement"),
                            refineUserInput(result.userInput, chat),
                            exampleQueries, tableMetadata, now' - startTime))
  /\ UNCHANGED <<exampleQueries, tableMetadata, startTime, summary>>

ResolveQuerySelection(chat) ==
  /\ pc = "selectingPattern"
  /\ Elapse
  /\ Delivered("querySelection", chat)
  /\ Commit(AfterQuerySelection(Settle("querySelection"),
                                selectBestQueryTry(chat),
                                tableMetadata, now' - startTime))
  /\ UNCHANGED <<exampleQueries, tableMetadata, startTime, summary>>

ResolveTableSelection(chat) ==
  /\ pc = "selectingTables"
  /\ Elapse
  /\ Delivered("tableSelection", chat)
  /\ Commit(AfterTableSelection(Settle("tableSelection"),
                                selectTablesAndColumnsTry(chat),
                                now' - startTime))
  /\ UNCHANGED <<exampleQueries, tableMetadata, startTime, summary>>

ResolveQueryGeneration(chat) ==
  /\ pc = "generating"
  /\ Elapse
  /\ Delivered("queryGeneration", chat)
  /\ LET steps == result.steps IN
     Commit(AfterGeneration(
              Settle("queryGeneration"),
              generateRedshiftQueryTry(steps["refinement"].refined,
                                       steps["querySelection"].selectedQuery,
                                       steps["tableSelection"].selectedTables,
                                       steps["tableSelection"].selectedColumns,
                                       chat),
              now' - startTime))
  /\ UNCHANGED <<exampleQueries, tableMetadata, startTime, summary>>

AddExampleQuery(query, description) ==
  /\ Len(exampleQueries) < MaxExamples
  /\ exampleQueries' = addExampleQueryPush(exampleQueries, query, description)
  /\ UNCHANGED <<tableMetadata, pc, result, startTime, now, pending, calls,
                 invoked, settled, summary>>

AddTableMetadata(tableName, metadata) ==
  /\ tableMetadata' = addTableMetadataSet(tableMetadata, tableName, metadata)
  /\ UNCHANGED <<exampleQueries, pc, result, startTime, now, pending, calls,
                 invoked, settled, summary>>

GetProcessingSummary ==
  /\ pc = "returned"
  /\ summary' = [called |-> TRUE, value |-> getProcessingSummary(result)]
  /\ UNCHANGED <<exampleQueries, tableMetadata, pc, result, startTime, now,
                 pending, calls, invoked, settled>>

Next ==
  \/ \E userInput \in UserInputs : ProcessQuery(userInput)
  \/ \E chat \in ChatOutcomes : ResolveRefinement(chat)
  \/ \E chat \in ChatOutcomes : ResolveQuerySelection(chat)
  \/ \E chat \in ChatOutcomes : ResolveTableSelection(chat)
  \/ \E chat \in ChatOutcomes : ResolveQueryGeneration(chat)
  \/ AddExampleQuery(ExampleQuery.query, ExampleQuery.description)
  \/ \E n \in TableNames, m \in Metadatas : AddTableMetadata(n, m)
  \/ GetProcessingSummary

Spec == Init /\ [][Next]_vars

\* Every model call eventually resolves or fails.
CallSettles ==
  \E chat \in ChatOutcomes :
    \/ ResolveRefinement(chat)
    \/ ResolveQuerySelection(chat)
    \/ ResolveTableSelection(chat)
    \/ ResolveQueryGeneration(chat)

FairSpec == Spec /\ WF_vars(CallSettles)

\* -------------------------------------------------------------- properties
Returned == pc = "returned"
Suspended == pc \in {"refining", "selectingPattern", "selectingTables", "generating"}
Has(name) == name \in DOMAIN result.steps
StepOk(name) == Has(name) /\ ~NotSuccess(result.steps[name])
InvokedSteps == {invoked[i].step : i \in DOMAIN invoked}
CalledSteps == {calls[i] : i \in DOMAIN calls}
RequiredStepsSucceeded ==
  StepOk("refinement") /\ StepOk("tableSelection") /\ StepOk("queryGeneration")

\* C1: in every returned result, finalQuery is non-null exactly when
\* refinement, table selection and query generation all succeeded, and that
\* is exactly when success is true.
C1_FinalQueryIffRequiredSteps ==
  Returned =>
    /\ (result.finalQuery # Null) <=> RequiredStepsSucceeded
    /\ RequiredStepsSucceeded <=> result.success

C1_Witness ==
  Returned /\ result.success /\ result.finalQuery # Null /\ RequiredStepsSucceeded

\* C2: processQuery never rejects; a returned result has its success flag set
\* (false together with an error, true without one) and its processingTime
\* recorded as the time elapsed since the start; and, model calls settling,
\* every run returns.
C2_AlwaysReturnsResult ==
  /\ [](pc # "rejected")
  /\ [](Returned =>
          /\ result.success \in BOOLEAN
          /\ result.success <=> "error" \notin DOMAIN result
          /\ result.processingTime = now - startTime)
  /\ Suspended ~> Returned

C2_Witness ==
  Returned /\ ~result.success /\ result.processingTime > 0

\* C3: a returned failure carries as top-level error the error of a failed
\* required step, prefixed with that step's name.
C3_ErrorIsPrefixedStepError ==
  Returned /\ ~result.success =>
    \E gate \in {<<"refinement", RefinementPrefix>>,
                 <<"tableSelection", TableSelectionPrefix>>,
                 <<"queryGeneration", QueryGenerationPrefix>>} :
      /\ Has(gate[1])
      /\ NotSuccess(result.steps[gate[1]])
      /\ result.error = <<gate[2]>> \o ErrorText(result.steps[gate[1]])

\* C4: when the refiner's model call fails, the refinement result is a failure
\* whose refined text is the original input, the run returns a failure
\* prefixed "Input refinement failed: ", and no later step is started.
C4_RefinementFailureAborts ==
  (settled # <<>> /\ settled[1].chat.kind = "rejected") =>
    /\ Returned
    /\ DOMAIN result.steps = {"refinement"}
    /\ ~result.steps["refinement"].success
    /\ result.steps["refinement"].refined = result.userInput
    /\ result.steps["refinement"].original = result.userInput
    /\ ~result.success
    /\ result.error = <<RefinementPrefix>> \o result.steps["refinement"].error
    /\ InvokedSteps = {"refinement"}
    /\ calls = <<"refinement">>

C4_Witness ==
  Returned /\ settled # <<>> /\ settled[1].chat.kind = "rejected"
  /\ result.steps["refinement"].refined = result.userInput

\* C5: when the table selector's model response is not valid JSON, its result
\* is a failure with no tables, no columns and confidence 0, the run returns
\* "Table selection failed: ..." and the query generator is never called.
TableResponseNotJSON ==
  \E i \in DOMAIN settled :
    /\ settled[i].step = "tableSelection"
    /\ settled[i].chat.kind = "resolved"
    /\ ~JSONParse(settled[i].chat.content).ok

C5_InvalidJSONAbortsBeforeGeneration ==
  TableResponseNotJSON =>
    /\ Returned
    /\ ~result.steps["tableSelection"].success
    /\ result.steps["tableSelection"].selectedTables = Arr(<<>>)
    /\ result.steps["tableSelection"].selectedColumns = Obj(NoFields)
    /\ result.steps["tableSelection"].confidence = Num(0)
    /\ ~result.success
    /\ result.error = <<TableSelectionPrefix>> \o result.steps["tableSelection"].error
    /\ "queryGeneration" \notin InvokedSteps \cup CalledSteps \cup DOMAIN result.steps

C5_Witness ==
  TableResponseNotJSON /\ Returned /\ result.error[1] = TableSelectionPrefix

\* C6: pattern selection never aborts the run: once refinement succeeded and
\* selectBestQuery is not awaiting its call, table selection has been started,
\* whatever selectBestQuery returned; and with an empty example catalog
\* selectBestQuery makes no model call and returns selectedQuery null,
\* confidence 0.
C6_PatternSelectionNeverAborts ==
  /\ []((StepOk("refinement") /\ pc # "selectingPattern") =>
          /\ Has("querySelection")
          /\ "tableSelection" \in InvokedSteps)
  /\ [][("querySelection" \notin InvokedSteps /\ "querySelection" \in InvokedSteps'
          /\ Len(exampleQueries) = 0) =>
          /\ "querySelection" \notin CalledSteps'
          /\ result'.steps["querySelection"].selectedQuery = Null
          /\ result'.steps["querySelection"].confidence = Num(0)
          /\ "tableSelection" \in InvokedSteps']_vars

C6_Witness ==
  /\ Has("querySelection")
  /\ "error" \in DOMAIN result.steps["querySelection"]
  /\ StepOk("tableSelection")

C8_StepsReturnResults ==
  Returned =>
    /\ \A i \in DOMAIN invoked : Has(invoked[i].step)
    /\ \A i \in DOMAIN settled :
         settled[i].chat.kind = "rejected" =>
           /\ Has(settled[i].step)
           /\ NotSuccess(result.steps[settled[i].step])
           /\ "error" \in DOMAIN result.steps[settled[i].step]

\* C9: the model calls of a run go out in the order refine, select pattern,
\* select tables, generate, at most one per step and four per run, and each
\* only when every earlier call has settled.
CallOrder == <<"refinement", "querySelection", "tableSelection", "queryGeneration">>
Position(name) == CHOOSE k \in DOMAIN CallOrder : CallOrder[k] = name

C9_CallsInOrderOncePerStep ==
  /\ Len(calls) <= Len(CallOrder)
  /\ \A i, j \in DOMAIN calls : i < j => Position(calls[i]) < Position(calls[j])
  /\ Cardinality(pending) <= 1
  /\ pending # {} => pending = {calls[Len(calls)]}
  /\ Len(settled) = Len(calls) - Cardinality(pending)
  /\ \A i \in DOMAIN settled : settled[i].step = calls[i]

C9_Witness ==
  /\ Returned /\ calls = CallOrder
  /\ settled[Len(settled)].chat.kind = "rejected"

\* C10: whenever query generation succeeded, the run has returned with a
\* validation result, success = true and finalQuery the generated text, also
\* when validation says the query is not valid.
C10_ValidationNeverFails ==
  StepOk("queryGeneration") =>
    /\ Returned
    /\ Has("validation")
    /\ result.success
    /\ result.finalQuery = result.steps["queryGeneration"].query

C10_Witness ==
  /\ StepOk("queryGeneration")
  /\ Has("validation")
  /\ ~result.steps["validation"].isValid
  /\ ~result.steps["validation"].checks.notEmpty
  /\ result.success

\* C11: when the table catalog is empty as step 3 starts, selectTablesAndColumns
\* makes no model call and returns a result without a success flag; the run
\* returns at once with success = false, finalQuery null and the
\* "Table selection failed: " error, and the query generator is never called,
\* although refinement succeeded.
C11_EmptyTableCatalogAborts ==
  [][("tableSelection" \notin InvokedSteps /\ "tableSelection" \in InvokedSteps'
       /\ DOMAIN tableMetadata = {}) =>
       /\ "tableSelection" \notin CalledSteps'
       /\ "tableSelection" \in DOMAIN result'.steps
       /\ "success" \notin DOMAIN result'.steps["tableSelection"]
       /\ result'.steps["tableSelection"].selectedTables = Arr(<<>>)
       /\ result'.steps["tableSelection"].selectedColumns = Obj(NoFields)
       /\ result'.steps["tableSelection"].reasoning
            = Str(<<"No table metadata available">>)
       /\ result'.steps["refinement"].success
       /\ pc' = "returned"
       /\ ~result'.success
       /\ result'.finalQuery = Null
       /\ result'.error = <<TableSelectionPrefix, "undefined">>
       /\ "queryGeneration" \notin
            InvokedSteps' \cup CalledSteps' \cup DOMAIN result'.steps]_vars

C11_Witness ==
  /\ Returned
  /\ DOMAIN tableMetadata = {}
  /\ Has("tableSelection")
  /\ "success" \notin DOMAIN result.steps["tableSelection"]
  /\ "tableSelection" \notin CalledSteps
  /\ StepOk("refinement")
  /\ \A i \in DOMAIN settled : settled[i].chat.kind = "resolved"
  /\ ~result.success
  /\ result.finalQuery = Null

====
